---- MODULE Spec2Model ----
(***************************************************************************)
(* Deterministic row identity and idempotent merge of the personal-finance *)
(* dashboard: insert_new_records (src/main/sql.py) against the AllSpending *)
(* table (src/models/all_spending.py), and generate_deterministic_row_ids  *)
(* (src/main/utils.py).                                                    *)
(***************************************************************************)
EXTENDS Integers, Sequences, FiniteSets, TLC

\* ------------------------------------------------------------------ bounds
\* Number of distinct row identifiers the merge batches draw from.
MaxId == 2
\* Longest batch (DataFrame) handed to insert_new_records.
MaxBatch == 2

\* Longest batch handed to generate_deterministic_row_ids on its own.
MaxGenBatch == 3

\* ------------------------------------------------------- strings and digest
\* A Python str is a sequence of one-character strings.
Digit(n) == <<"0", "1", "2", "3", "4", "5", "6", "7", "8", "9">>[n + 1]

RECURSIVE Digits(_)
\* Decimal rendering of a natural number, as str(n) / f"{n}".
Digits(n) == IF n < 10 THEN <<Digit(n)>> ELSE Digits(n \div 10) \o <<Digit(n % 10)>>

\* The sequences over S of length at most n.
RECURSIVE SeqsUpTo(_, _)
SeqsUpTo(S, n) ==
    IF n = 0 THEN {<<>>}
    ELSE LET shorter == SeqsUpTo(S, n - 1)
         IN  shorter \cup {Append(s, x) : s \in {t \in shorter : Len(t) = n - 1}, x \in S}

\* hashlib.md5(s.encode()).hexdigest()[:20]: a function of the hash input only,
\* taken as collision-free on distinct inputs.  The digest is the tagged input.
Md5Prefix(hash_input) == <<"md5:">> \o hash_input

\* ----------------------------------------------------- identifier generator
IsSpace(c) == c \in {" ", "\t", "\n"}

RECURSIVE LStrip(_)
LStrip(s) == IF s # <<>> /\ IsSpace(Head(s)) THEN LStrip(Tail(s)) ELSE s

RECURSIVE RStrip(_)
RStrip(s) ==
    IF s # <<>> /\ IsSpace(s[Len(s)]) THEN RStrip(SubSeq(s, 1, Len(s) - 1)) ELSE s

\* str.strip()
Strip(s) == RStrip(LStrip(s))

LowerChar(c) ==
    CASE c = "A" -> "a" [] c = "B" -> "b" [] c = "C" -> "c" [] c = "J" -> "j"
      [] c = "N" -> "n" [] c = "S" -> "s" [] c = "V" -> "v" [] OTHER -> c

\* str.lower(), on the letters the sample strings use
Lower(s) == [i \in DOMAIN s |-> LowerChar(s[i])]

\* str(x) of a cell: the text itself, or the text Python gives a missing value.
PyStr(cell) ==
    CASE cell.kind = "str" -> cell.s
      [] cell.kind = "None" -> <<"N", "o", "n", "e">>
      [] cell.kind = "nan" -> <<"n", "a", "n">>

\* Zero-padded rendering of n in two digits.
Pad2(n) == IF n < 10 THEN <<"0">> \o Digits(n) ELSE Digits(n)

\* pd.to_datetime(row['Date']).strftime('%Y-%m-%d') of a timestamp (years of
\* four digits); the time of day is dropped.
StrfDate(date) == Digits(date.y) \o <<"-">> \o Pad2(date.m) \o <<"-">> \o Pad2(date.d)

\* An amount is held in units of 1/256, which a float represents exactly.
\* Cents of |n|/256 rounded half to even, as the float formatting rounds.
RoundCents(n) ==
    LET a == IF n < 0 THEN -n ELSE n
        q == (25 * a) \div 64
        r == (25 * a) % 64
    IN  IF r < 32 THEN q
        ELSE IF r > 32 THEN q + 1
        ELSE IF q % 2 = 0 THEN q ELSE q + 1

\* f"{float(row['Amount']):.2f}"; a negative amount keeps its sign even when it
\* rounds to zero ("-0.00"); float('nan') renders as "nan".
FormatAmount(amount) ==
    IF amount.kind = "nan" THEN <<"n", "a", "n">>
    ELSE LET c == RoundCents(amount.n)
         IN  (IF amount.n < 0 THEN <<"-">> ELSE <<>>)
                \o Digits(c \div 100) \o <<".">> \o Pad2(c % 100)

\* The row for which create_hash_key raises: strftime of NaT or of an
\* unparseable date, float() of None or of text that is no number.
RowRaises(row) ==
    \/ row.Date.kind \in {"NaT", "bad"}
    \/ row.Amount.kind \in {"None", "bad"}

\* Faulty variant of create_hash_key: the file left out of the key, as in the
\* docstring's "(same date, description, amount, source)".
create_hash_key_no_file(row) ==
    StrfDate(row.Date) \o <<"|">> \o Lower(Strip(PyStr(row.Description))) \o <<"|">>
        \o FormatAmount(row.Amount) \o <<"|">> \o Strip(PyStr(row.Source))

\* Faulty variant of create_hash_key: the balance made part of the key.
create_hash_key_with_balance(row) ==
    StrfDate(row.Date) \o <<"|">> \o Lower(Strip(PyStr(row.Description))) \o <<"|">>
        \o FormatAmount(row.Amount) \o <<"|">> \o Strip(PyStr(row.Source)) \o <<"|">>
        \o Strip(PyStr(row.File)) \o <<"|">> \o Digits(row.Balance)

\* Faulty variant of create_hash_key: the description taken as it is.
create_hash_key_raw_desc(row) ==
    StrfDate(row.Date) \o <<"|">> \o PyStr(row.Description) \o <<"|">>
        \o FormatAmount(row.Amount) \o <<"|">> \o Strip(PyStr(row.Source)) \o <<"|">>
        \o Strip(PyStr(row.File))

\* create_hash_key(row)
create_hash_key(row) ==
    LET date_str == StrfDate(row.Date)
        desc == Lower(Strip(PyStr(row.Description)))
        amount == FormatAmount(row.Amount)
        source == Strip(PyStr(row.Source))
        file == Strip(PyStr(row.File))
    IN  date_str \o <<"|">> \o desc \o <<"|">> \o amount \o <<"|">> \o source
            \o <<"|">> \o file

\* Faulty variant of CounterGet: the count of a key is never remembered.
CounterGetZero(counter, key) == 0

\* defaultdict(int): an absent key counts 0.
CounterGet(counter, key) == IF key \in DOMAIN counter THEN counter[key] ELSE 0

CounterIncr(counter, key) ==
    [k \in DOMAIN counter \cup {key} |->
        IF k = key THEN CounterGet(counter, key) + 1 ELSE counter[k]]

\* defaultdict(int)
EmptyCounter == [k \in {} |-> 0]

RECURSIVE IterRowsPositionSuffix(_, _, _, _)
\* Faulty variant of IterRows: a repeated key is marked with the row's
\* position in the batch, not with its occurrence count.
IterRowsPositionSuffix(df, i, counter, ids) ==
    IF i > Len(df) THEN [hash_counter |-> counter, row_ids |-> ids]
    ELSE LET base_key == create_hash_key(df[i])
             occurrence == CounterGet(counter, base_key)
             hash_input == IF occurrence > 0
                           THEN base_key \o <<"|", "d", "u", "p", "_">> \o Digits(i)
                           ELSE base_key
             row_id == Md5Prefix(hash_input)
         IN  IterRowsPositionSuffix(df, i + 1, CounterIncr(counter, base_key),
                                    Append(ids, row_id))

RECURSIVE IterRowsReversed(_, _, _, _)
\* Faulty variant of IterRows: each identifier is put in front of the list.
IterRowsReversed(df, i, counter, ids) ==
    IF i > Len(df) THEN [hash_counter |-> counter, row_ids |-> ids]
    ELSE LET base_key == create_hash_key(df[i])
             occurrence == CounterGet(counter, base_key)
             hash_input == IF occurrence > 0
                           THEN base_key \o <<"|", "d", "u", "p", "_">> \o Digits(occurrence)
                           ELSE base_key
             row_id == Md5Prefix(hash_input)
         IN  IterRowsReversed(df, i + 1, CounterIncr(counter, base_key),
                              <<row_id>> \o ids)

RECURSIVE IterRowsByIndex(_, _, _, _)
\* Faulty variant of IterRows: every row but the first is marked with its
\* position in the batch.
IterRowsByIndex(df, i, counter, ids) ==
    IF i > Len(df) THEN [hash_counter |-> counter, row_ids |-> ids]
    ELSE LET base_key == create_hash_key(df[i])
             hash_input == IF i > 1
                           THEN base_key \o <<"|", "d", "u", "p", "_">> \o Digits(i - 1)
                           ELSE base_key
             row_id == Md5Prefix(hash_input)
         IN  IterRowsByIndex(df, i + 1, CounterIncr(counter, base_key), Append(ids, row_id))

RECURSIVE IterRowsNoSuffix(_, _, _, _)
\* Faulty variant of IterRows: a repeated key is not marked.
IterRowsNoSuffix(df, i, counter, ids) ==
    IF i > Len(df) THEN [hash_counter |-> counter, row_ids |-> ids]
    ELSE LET base_key == create_hash_key(df[i])
             row_id == Md5Prefix(base_key)
         IN  IterRowsNoSuffix(df, i + 1, CounterIncr(counter, base_key), Append(ids, row_id))

RECURSIVE IterRows(_, _, _, _)
\* The loop over df.iterrows(), from row i on.
IterRows(df, i, counter, ids) ==
    IF i > Len(df) THEN [hash_counter |-> counter, row_ids |-> ids]
    ELSE LET base_key == create_hash_key(df[i])
             occurrence == CounterGet(counter, base_key)
             hash_input == IF occurrence > 0
                           THEN base_key \o <<"|", "d", "u", "p", "_">> \o Digits(occurrence)
                           ELSE base_key
             row_id == Md5Prefix(hash_input)
         IN  IterRows(df, i + 1, CounterIncr(counter, base_key), Append(ids, row_id))

Str(s) == [kind |-> "str", s |-> s]
Timestamp(y, m, d, secs) == [kind |-> "ts", y |-> y, m |-> m, d |-> d, secs |-> secs]
Number(n) == [kind |-> "num", n |-> n]

\* Sample rows: a purchase of -4.50 (-1152/256), the same purchase with other
\* enrichment fields, from another file, and with a missing date.
CoffeeRow ==
    [Date |-> Timestamp(2024, 1, 5, 0), Description |-> Str(<<"C", "s">>),
     Amount |-> Number(-1152), Source |-> Str(<<"V">>), File |-> Str(<<"j">>),
     Balance |-> 10, Category |-> "food", Subdescription |-> "a"]

GenRows ==
    { CoffeeRow,
      [CoffeeRow EXCEPT !.Balance = 20, !.Category = "misc", !.Subdescription = "b"],
      [CoffeeRow EXCEPT !.File = Str(<<"j", "c">>)],
      [CoffeeRow EXCEPT !.Date = [kind |-> "NaT", y |-> 0, m |-> 0, d |-> 0, secs |-> 0]] }

\* The DataFrames a caller may hand to generate_deterministic_row_ids.
GenBatches == SeqsUpTo(GenRows, MaxBatch)

VARIABLES
    genPc,         \* idle | returned | raised: how the last generator call ended
    genDf,         \* df of the last generator call
    hash_counter,  \* the call's hash_counter, as the loop left it
    row_ids,       \* the identifiers the last call returned
    refDf,         \* df of an earlier call that returned, kept for comparison
    refIds,        \* what that call returned
    sinceRef       \* 0: no call kept yet; 1: the kept call is the last call; 2: calls followed it

genVars == <<genPc, genDf, hash_counter, row_ids, refDf, refIds, sinceRef>>

\* What one call does, given the counter its loop starts from.
GenerateFrom(df, counter0) ==
    /\ genDf' = df
    /\ IF \E i \in DOMAIN df : RowRaises(df[i])
       THEN /\ genPc' = "raised"
            /\ row_ids' = <<>>
            /\ hash_counter' = EmptyCounter
            /\ sinceRef' = IF sinceRef = 0 THEN 0 ELSE 2
            /\ UNCHANGED <<refDf, refIds>>
       ELSE LET r == IterRows(df, 1, counter0, <<>>)
            IN  /\ genPc' = "returned"
                /\ row_ids' = r.row_ids
                /\ hash_counter' = r.hash_counter
                /\ \/ /\ refDf' = df
                      /\ refIds' = r.row_ids
                      /\ sinceRef' = 1
                   \/ /\ sinceRef > 0
                      /\ sinceRef' = 2
                      /\ UNCHANGED <<refDf, refIds>>

\* Faulty variant of Generate: hash_counter kept across calls (module level).
GenerateStaleCounter(df) == GenerateFrom(df, hash_counter)

\* generate_deterministic_row_ids(df): hash_counter starts empty in every call.
Generate(df) == GenerateFrom(df, EmptyCounter)

GenInit ==
    /\ genPc = "idle"
    /\ genDf = <<>>
    /\ hash_counter = EmptyCounter
    /\ row_ids = <<>>
    /\ refDf = <<>>
    /\ refIds = <<>>
    /\ sinceRef = 0

\* More sample rows: the purchase with other enrichment fields, with a file
\* name that ends like the duplicate marker, with a missing description.
CoffeeEnriched ==
    [CoffeeRow EXCEPT !.Balance = 20, !.Category = "misc", !.Subdescription = "b"]

DupFileRow == [CoffeeRow EXCEPT !.File = Str(<<"j", "|", "d", "u", "p", "_", "1">>)]

NoDescRow == [CoffeeRow EXCEPT !.Description = [kind |-> "None", s |-> <<>>]]

NaTRow == [CoffeeRow EXCEPT !.Date = [kind |-> "NaT", y |-> 0, m |-> 0, d |-> 0, secs |-> 0]]

WideRows == {CoffeeRow, CoffeeEnriched, DupFileRow, NoDescRow, NaTRow}

\* The DataFrames of the specification that looks at one call at a time.
WideBatches == SeqsUpTo(WideRows, MaxGenBatch)

\* One call of the generator, compared with no other call.
GenerateWide(df) ==
    /\ genPc = "idle"
    /\ Generate(df)
    /\ sinceRef' = 2
    /\ UNCHANGED <<refDf, refIds>>

\* The caller is done with what the call returned; hash_counter still shows
\* what the call's loop left.
DiscardWide ==
    /\ genPc \in {"returned", "raised"}
    /\ genPc' = "idle"
    /\ genDf' = <<>>
    /\ row_ids' = <<>>
    /\ UNCHANGED <<hash_counter, refDf, refIds, sinceRef>>

\* As GenInit; the call kept for comparison is the one of the empty batch,
\* which returns no identifier, and stays that.
GenWideInit ==
    /\ genPc = "idle"
    /\ genDf = <<>>
    /\ hash_counter = EmptyCounter
    /\ row_ids = <<>>
    /\ refDf = <<>>
    /\ refIds = <<>>
    /\ sinceRef = 2

\* Values of the five key fields for rows that differ in one field: the same
\* day at another time and another day; other case, padding and text; -4.50,
\* an amount that rounds to -4.50 and -5.00; padded and lower-case source;
\* padded and other file.
KeyFieldValues(f) ==
    CASE f = "Date" -> {Timestamp(2024, 1, 5, 0), Timestamp(2024, 1, 5, 3600),
                        Timestamp(2024, 1, 6, 0)}
      [] f = "Description" -> {Str(<<"C", "s">>), Str(<<"c", "s">>), Str(<<" ", "c", "s">>),
                               Str(<<"x">>)}
      [] f = "Amount" -> {Number(-1152), Number(-1153), Number(-1280)}
      [] f = "Source" -> {Str(<<"V">>), Str(<<"V", " ">>), Str(<<"v">>)}
      [] f = "File" -> {Str(<<"j">>), Str(<<" ", "j">>), Str(<<"j", "c">>)}

IdentityFields == {"Date", "Description", "Amount", "Source", "File"}

KeyRows ==
    {[CoffeeRow EXCEPT !.Date = d, !.Description = t, !.Amount = a, !.Source = o, !.File = e] :
        d \in KeyFieldValues("Date"), t \in KeyFieldValues("Description"),
        a \in KeyFieldValues("Amount"), o \in KeyFieldValues("Source"),
        e \in KeyFieldValues("File")}

\* A single-row batch is identified and kept for comparison.
KeyFirst(row) ==
    /\ genPc = "idle"
    /\ Generate(<<row>>)
    /\ sinceRef' = 1

\* The kept row with one of its five key fields changed is identified.
KeyVariant(f, v) ==
    /\ genPc = "returned"
    /\ sinceRef = 1
    /\ v # refDf[1][f]
    /\ Generate(<<[refDf[1] EXCEPT ![f] = v]>>)
    /\ sinceRef' = 2

\* The caller is done with the pair.
KeyDone ==
    /\ genPc \in {"returned", "raised"}
    /\ genPc' = "idle"
    /\ genDf' = <<>>
    /\ hash_counter' = EmptyCounter
    /\ row_ids' = <<>>
    /\ refDf' = <<>>
    /\ refIds' = <<>>
    /\ sinceRef' = 0

\* Values of the five key fields for pairs of rows: the same day at another
\* time and another day; other case, padding and text; one amount; a padded,
\* a lower-case and a delimiter-holding source; a padded, an upper-case and
\* other files, one holding the delimiter.
PairFieldValues(f) ==
    CASE f = "Date" -> {Timestamp(2024, 1, 5, 0), Timestamp(2024, 1, 5, 3600),
                        Timestamp(2024, 1, 6, 0)}
      [] f = "Description" -> {Str(<<"C", "s">>), Str(<<" ", "c", "s">>), Str(<<"x">>)}
      [] f = "Amount" -> {Number(-1152)}
      [] f = "Source" -> {Str(<<"V">>), Str(<<"V", " ">>), Str(<<"v">>),
                          Str(<<"V", "|", "j">>)}
      [] f = "File" -> {Str(<<"j">>), Str(<<" ", "j">>), Str(<<"J">>), Str(<<"c">>),
                        Str(<<"j", "|", "c">>)}

PairRows ==
    {[CoffeeRow EXCEPT !.Date = d, !.Description = t, !.Amount = a, !.Source = o, !.File = e] :
        d \in PairFieldValues("Date"), t \in PairFieldValues("Description"),
        a \in PairFieldValues("Amount"), o \in PairFieldValues("Source"),
        e \in PairFieldValues("File")}

\* After a single-row batch, another single-row batch is identified.
KeyOther(row) ==
    /\ genPc = "returned"
    /\ sinceRef = 1
    /\ Generate(<<row>>)
    /\ sinceRef' = 2
    /\ UNCHANGED <<refDf, refIds>>

\* ------------------------------------------------------------ merge engine
Writers == {"w1", "w2"}
\* The single ingestion process of the single-writer model.
MainWriter == "w1"

\* RowID values of the merge batches: digests of the inputs "1" .. "MaxId".
RowIds == {Md5Prefix(Digits(n)) : n \in 1..MaxId}
\* Values of the enrichment column Balance (not part of the key).
Balances == {10, 20}
\* A row of the AllSpending table, reduced to its key and one non-key column.
AllSpending == [RowID : RowIds, Balance : Balances]

\* The DataFrames a caller may hand to insert_new_records.
Batches == SeqsUpTo(AllSpending, MaxBatch)

VARIABLES
    store,          \* the AllSpending table: its rows in insertion order
    pc,             \* per writer: idle | read | write | returned | raised
    batch,          \* per writer: df, the argument of the current call
    existing_ids,   \* per writer: the RowID column read at line 22
    new_records,    \* per writer: df filtered at line 28
    result,         \* per writer: the value returned
    error,          \* per writer: the exception raised ("" when none)
    ops,            \* per writer: log of the store operations of the current call
    storeAtCall,    \* per writer: the table when the current call began
    prev,           \* per writer: what the previous call was, if it merged the same df
    inFlightAtRead  \* per writer: writers between their read and write at this read

mergeVars == <<store, pc, batch, existing_ids, new_records, result, error, ops,
               storeAtCall, prev, inFlightAtRead>>

\* The RowID column of a table or DataFrame, as a list (.tolist()).
RowIDColumn(rows) == [i \in DOMAIN rows |-> rows[i].RowID]

IdsOf(rows) == {rows[i].RowID : i \in DOMAIN rows}

DistinctIds(rows) == \A i, j \in DOMAIN rows : i # j => rows[i].RowID # rows[j].RowID

\* Series.isin(values)
IsIn(id, values) == \E i \in DOMAIN values : values[i] = id

\* Faulty variant of FilterNew: the isin filter left out.
FilterNewKeepAll(df, existing) == df

\* Faulty variant of FilterNew: only the first new record kept.
FilterNewFirst(df, existing) ==
    LET new == SelectSeq(df, LAMBDA r : ~IsIn(r.RowID, existing))
    IN  IF new = <<>> THEN <<>> ELSE <<new[1]>>

\* new_records = df[~df['RowID'].isin(existing_ids)]
FilterNew(df, existing) == SelectSeq(df, LAMBDA r : ~IsIn(r.RowID, existing))

\* Faulty variant of PrimaryKeyOk: a table created without the primary key.
PrimaryKeyOff(table, rows) == TRUE

\* RowID = Column(String(8), primary_key=True): the table accepts the rows only
\* if no RowID repeats among the stored rows and the rows being inserted.
PrimaryKeyOk(table, rows) == DistinctIds(table \o rows)

RECURSIVE AcceptedPrefix(_, _)
\* The rows a row-by-row insert gets in before the first rejected one.
AcceptedPrefix(table, rows) ==
    IF rows = <<>> \/ ~PrimaryKeyOk(table, <<Head(rows)>>) THEN <<>>
    ELSE <<Head(rows)>> \o AcceptedPrefix(Append(table, Head(rows)), Tail(rows))

\* Faulty variant of to_sql: row-by-row commits, no rollback on rejection.
to_sql_autocommit(table, rows) ==
    IF PrimaryKeyOk(table, rows)
    THEN [ok |-> TRUE, table |-> table \o rows]
    ELSE [ok |-> FALSE, table |-> table \o AcceptedPrefix(table, rows)]

\* Faulty variant of to_sql: if_exists='replace'.
to_sql_replace(table, rows) ==
    IF PrimaryKeyOk(<<>>, rows)
    THEN [ok |-> TRUE, table |-> rows]
    ELSE [ok |-> FALSE, table |-> table]

\* new_records.to_sql(table_name, engine, if_exists='append', index=False):
\* one multi-row INSERT inside one transaction; a rejected row raises
\* IntegrityError and the transaction is rolled back.
to_sql(table, rows) ==
    IF PrimaryKeyOk(table, rows)
    THEN [ok |-> TRUE, table |-> table \o rows]
    ELSE [ok |-> FALSE, table |-> table]

\* Faulty variant of ReturnCount: return len(df).
ReturnLenDf(df, new) == Len(df)

\* return len(new_records)
ReturnCount(df, new) == Len(new)

NoPrev == [same |-> FALSE, returned |-> FALSE, fromEmpty |-> FALSE]

\* insert_new_records(df, engine) is entered; p tells what the call before was.
Enter(w, df, p) ==
    /\ pc' = [pc EXCEPT ![w] = "read"]
    /\ batch' = [batch EXCEPT ![w] = df]
    /\ existing_ids' = [existing_ids EXCEPT ![w] = <<>>]
    /\ new_records' = [new_records EXCEPT ![w] = <<>>]
    /\ result' = [result EXCEPT ![w] = 0]
    /\ error' = [error EXCEPT ![w] = ""]
    /\ ops' = [ops EXCEPT ![w] = <<>>]
    /\ storeAtCall' = [storeAtCall EXCEPT ![w] = store]
    /\ prev' = [prev EXCEPT ![w] = p]
    /\ inFlightAtRead' = [inFlightAtRead EXCEPT ![w] = {}]
    /\ UNCHANGED store

\* The caller hands a batch to insert_new_records.
Call(w, df) ==
    /\ pc[w] = "idle"
    /\ Enter(w, df, NoPrev)

\* The caller hands the batch of the call that just ended to insert_new_records
\* again (a re-run, or the retry after a failure).
CallAgain(w) ==
    /\ pc[w] \in {"returned", "raised"}
    /\ Enter(w, batch[w], [same |-> TRUE, returned |-> pc[w] = "returned",
                          fromEmpty |-> storeAtCall[w] = <<>>])

\* The call is over: its locals are gone, the table stays.
Finish(w) ==
    /\ pc[w] \in {"returned", "raised"}
    /\ pc' = [pc EXCEPT ![w] = "idle"]
    /\ batch' = [batch EXCEPT ![w] = <<>>]
    /\ existing_ids' = [existing_ids EXCEPT ![w] = <<>>]
    /\ new_records' = [new_records EXCEPT ![w] = <<>>]
    /\ result' = [result EXCEPT ![w] = 0]
    /\ error' = [error EXCEPT ![w] = ""]
    /\ ops' = [ops EXCEPT ![w] = <<>>]
    /\ storeAtCall' = [storeAtCall EXCEPT ![w] = <<>>]
    /\ prev' = [prev EXCEPT ![w] = NoPrev]
    /\ inFlightAtRead' = [inFlightAtRead EXCEPT ![w] = {}]
    /\ UNCHANGED store

\* Faulty variant of ReadFails: the exception caught, existing_ids taken as empty.
ReadFailsSwallowed(w) ==
    /\ pc[w] = "read"
    /\ ops' = [ops EXCEPT ![w] = Append(@, "read_failed")]
    /\ new_records' = [new_records EXCEPT ![w] = batch[w]]
    /\ pc' = [pc EXCEPT ![w] = "write"]
    /\ UNCHANGED <<store, batch, existing_ids, result, error, storeAtCall, prev,
                   inFlightAtRead>>

\* pd.read_sql raises (store unavailable): nothing catches it.
ReadFails(w) ==
    /\ pc[w] = "read"
    /\ ops' = [ops EXCEPT ![w] = Append(@, "read_failed")]
    /\ error' = [error EXCEPT ![w] = "OperationalError"]
    /\ pc' = [pc EXCEPT ![w] = "raised"]
    /\ UNCHANGED <<store, batch, existing_ids, new_records, result, storeAtCall,
                   prev, inFlightAtRead>>

\* Faulty variant of ReadExisting: the early return of lines 30-32 left out.
ReadExistingNoEarlyReturn(w) ==
    /\ pc[w] = "read"
    /\ existing_ids' = [existing_ids EXCEPT ![w] = RowIDColumn(store)]
    /\ new_records' = [new_records EXCEPT ![w] = FilterNew(batch[w], RowIDColumn(store))]
    /\ pc' = [pc EXCEPT ![w] = "write"]
    /\ ops' = [ops EXCEPT ![w] = Append(@, "read_ok")]
    /\ inFlightAtRead' = [inFlightAtRead EXCEPT ![w] =
                            {v \in Writers \ {w} : pc[v] = "write"}]
    /\ UNCHANGED <<store, batch, result, error, storeAtCall, prev>>

\* Lines 22-32: read the RowID column, filter df, return 0 when nothing is new.
ReadExisting(w) ==
    /\ pc[w] = "read"
    /\ LET ids == RowIDColumn(store)
           new == FilterNew(batch[w], ids)
       IN  /\ existing_ids' = [existing_ids EXCEPT ![w] = ids]
           /\ new_records' = [new_records EXCEPT ![w] = new]
           /\ IF Len(new) = 0
              THEN /\ result' = [result EXCEPT ![w] = 0]
                   /\ pc' = [pc EXCEPT ![w] = "returned"]
              ELSE /\ pc' = [pc EXCEPT ![w] = "write"]
                   /\ UNCHANGED result
    /\ ops' = [ops EXCEPT ![w] = Append(@, "read_ok")]
    /\ inFlightAtRead' = [inFlightAtRead EXCEPT ![w] =
                            {v \in Writers \ {w} : pc[v] = "write"}]
    /\ UNCHANGED <<store, batch, error, storeAtCall, prev>>

\* Lines 35-38: append new_records in one transaction and return their count;
\* a primary-key rejection propagates as IntegrityError.
ToSql(w) ==
    /\ pc[w] = "write"
    /\ LET r == to_sql(store, new_records[w])
       IN  /\ store' = r.table
           /\ IF r.ok
              THEN /\ result' = [result EXCEPT ![w] = ReturnCount(batch[w], new_records[w])]
                   /\ pc' = [pc EXCEPT ![w] = "returned"]
                   /\ ops' = [ops EXCEPT ![w] = Append(@, "write_ok")]
                   /\ UNCHANGED error
              ELSE /\ error' = [error EXCEPT ![w] = "IntegrityError"]
                   /\ pc' = [pc EXCEPT ![w] = "raised"]
                   /\ ops' = [ops EXCEPT ![w] = Append(@, "write_rejected")]
                   /\ UNCHANGED result
    /\ UNCHANGED <<batch, existing_ids, new_records, storeAtCall, prev, inFlightAtRead>>

\* The write fails for infrastructure reasons: the transaction is rolled back.
WriteFails(w) ==
    /\ pc[w] = "write"
    /\ error' = [error EXCEPT ![w] = "OperationalError"]
    /\ pc' = [pc EXCEPT ![w] = "raised"]
    /\ ops' = [ops EXCEPT ![w] = Append(@, "write_failed")]
    /\ UNCHANGED <<store, batch, existing_ids, new_records, result, storeAtCall,
                   prev, inFlightAtRead>>

MergeInit ==
    /\ store = <<>>
    /\ pc = [w \in Writers |-> "idle"]
    /\ batch = [w \in Writers |-> <<>>]
    /\ existing_ids = [w \in Writers |-> <<>>]
    /\ new_records = [w \in Writers |-> <<>>]
    /\ result = [w \in Writers |-> 0]
    /\ error = [w \in Writers |-> ""]
    /\ ops = [w \in Writers |-> <<>>]
    /\ storeAtCall = [w \in Writers |-> <<>>]
    /\ prev = [w \in Writers |-> NoPrev]
    /\ inFlightAtRead = [w \in Writers |-> {}]

\* ------------------------------------------------- generator, then merge
\* Data flow: parsed rows -> identifier generator -> merge engine -> store.
\* The rows of the ingested batches: a purchase, the same purchase with other
\* enrichment fields, the same purchase from another file.
OtherFileRow == [CoffeeRow EXCEPT !.File = Str(<<"j", "c">>)]

IngestRows == {CoffeeRow, CoffeeEnriched, OtherFileRow}

IngestBatches == SeqsUpTo(IngestRows, MaxBatch)

\* The batch with the generator's identifiers in its RowID column, reduced to
\* the columns of AllSpending the merge model keeps.
WithRowIds(df, ids) == [i \in DOMAIN df |-> [RowID |-> ids[i], Balance |-> df[i].Balance]]

\* The reorderings of a batch.
Reorderings(df) == {[i \in DOMAIN df |-> df[f[i]]] : f \in Permutations(DOMAIN df)}

\* A batch is given identifiers and handed to insert_new_records.
IngestFirst(df) ==
    /\ pc[MainWriter] = "idle"
    /\ genPc = "idle"
    /\ Generate(df)
    /\ sinceRef' = 1
    /\ Enter(MainWriter, WithRowIds(df, row_ids'), NoPrev)

\* After the merge of a batch ended, a reordering of that batch (the batch
\* itself included) is given identifiers and handed to insert_new_records.
IngestReordered(p) ==
    /\ pc[MainWriter] \in {"returned", "raised"}
    /\ sinceRef = 1
    /\ Generate(p)
    /\ sinceRef' = 2
    /\ UNCHANGED <<refDf, refIds>>
    /\ Enter(MainWriter, WithRowIds(p, row_ids'),
             [same |-> p = refDf, returned |-> pc[MainWriter] = "returned",
              fromEmpty |-> storeAtCall[MainWriter] = <<>>])

\* The ingestion run is over: nothing but the table stays.
FinishIngest ==
    /\ Finish(MainWriter)
    /\ genPc' = "idle"
    /\ genDf' = <<>>
    /\ hash_counter' = EmptyCounter
    /\ row_ids' = <<>>
    /\ refDf' = <<>>
    /\ refIds' = <<>>
    /\ sinceRef' = 0

\* --------------------------------------------------- schema and view bootstrap
\* View names (file stems), in the order sorted() gives the files.
ViewOrder == <<"v1", "v2">>

ViewNames == {ViewOrder[i] : i \in DOMAIN ViewOrder}

\* Texts of the .sql files: two queries, the first also with a closing
\* semicolon and newline, and a text that is no SELECT body.
FileTexts ==
    {<<"q", "1">>, <<"q", "1", ";", "\n">>, <<"q", "2">>, <<"b", "a", "d">>}

\* The sql/views directory: absent, or holding a text for some of the names.
ViewDirs ==
    {[dir |-> FALSE, files |-> <<>>]}
        \cup {[dir |-> TRUE, files |-> f] : f \in UNION {[S -> FileTexts] : S \in SUBSET ViewNames}}

RECURSIVE RStripSemicolons(_)
\* str.rstrip(";")
RStripSemicolons(s) ==
    IF s # <<>> /\ s[Len(s)] = ";" THEN RStripSemicolons(SubSeq(s, 1, Len(s) - 1)) ELSE s

\* sql_body = path.read_text(encoding="utf-8").strip().rstrip(";")
SqlBody(text) == RStripSemicolons(Strip(text))

\* CREATE VIEW name AS sql_body is rejected by the parser for this body.
SyntaxError(sql_body) == sql_body = <<"b", "a", "d">>

VARIABLES
    tableExists,  \* whether the database has the AllSpending table
    views,        \* the views of the database: [name, body], in creation order
    schemaPc,     \* idle | init_returned | init_raised | views_returned | views_raised
    viewDir,      \* the sql/views directory the last ensure_views_from_files call saw
    viewsAtCall,  \* the views when the last bootstrap call began
    storeAtBoot,  \* the table rows when the last bootstrap call began
    tableAtBoot,  \* whether the table existed when the last bootstrap call began
    repeated,     \* the last ensure_views_from_files call repeated the one before
    mergedIds     \* the identifiers of the batches whose merge returned

schemaVars == <<tableExists, views, schemaPc, viewDir, viewsAtCall, storeAtBoot,
                tableAtBoot, repeated, mergedIds>>

NoDir == [dir |-> FALSE, files |-> <<>>]

\* Faulty variant of init_db: drop_all before create_all.
init_db_recreate ==
    /\ schemaPc = "idle"
    /\ pc[MainWriter] = "idle"
    /\ tableExists' = TRUE
    /\ store' = <<>>
    /\ schemaPc' = "init_returned"
    /\ storeAtBoot' = store
    /\ tableAtBoot' = tableExists
    /\ viewsAtCall' = views
    /\ UNCHANGED <<views, viewDir, repeated, mergedIds>>
    /\ UNCHANGED <<pc, batch, existing_ids, new_records, result, error, ops, storeAtCall,
                   prev, inFlightAtRead>>

\* init_db(): Base.metadata.create_all(bind=engine) creates the AllSpending
\* table when the database has none (checkfirst) and touches nothing else.
init_db ==
    /\ schemaPc = "idle"
    /\ pc[MainWriter] = "idle"
    /\ tableExists' = TRUE
    /\ schemaPc' = "init_returned"
    /\ storeAtBoot' = store
    /\ tableAtBoot' = tableExists
    /\ viewsAtCall' = views
    /\ UNCHANGED <<views, viewDir, repeated, mergedIds>>
    /\ UNCHANGED mergeVars

\* init_db() when the database cannot be opened: create_all raises.
InitDbFails ==
    /\ schemaPc = "idle"
    /\ pc[MainWriter] = "idle"
    /\ schemaPc' = "init_raised"
    /\ storeAtBoot' = store
    /\ tableAtBoot' = tableExists
    /\ viewsAtCall' = views
    /\ UNCHANGED <<tableExists, views, viewDir, repeated, mergedIds>>
    /\ UNCHANGED mergeVars

HasView(vs, name) == \E i \in DOMAIN vs : vs[i].name = name

\* Faulty variant of DropViewIfExists: the DROP left out.
DropViewSkipped(vs, name) == vs

\* DROP VIEW IF EXISTS name
DropViewIfExists(vs, name) == SelectSeq(vs, LAMBDA v : v.name # name)

\* CREATE VIEW name AS sql_body: rejected when the body does not parse or a
\* view of that name exists.
CreateView(vs, name, sql_body) ==
    IF SyntaxError(sql_body) \/ HasView(vs, name)
    THEN [ok |-> FALSE, views |-> vs]
    ELSE [ok |-> TRUE, views |-> Append(vs, [name |-> name, body |-> sql_body])]

\* The files of the directory, sorted: sorted(root.glob("*.sql")).
SortedStems(d) == SelectSeq(ViewOrder, LAMBDA n : n \in DOMAIN d.files)

RECURSIVE ViewLoop(_, _, _)
\* The loop of lines 41-47 over the stems from position i on.
ViewLoop(vs, d, i) ==
    LET stems == SortedStems(d)
    IN  IF i > Len(stems) THEN [ok |-> TRUE, views |-> vs]
        ELSE LET name == stems[i]
                 sql_body == SqlBody(d.files[name])
                 r == CreateView(DropViewIfExists(vs, name), name, sql_body)
             IN  IF r.ok THEN ViewLoop(r.views, d, i + 1)
                 ELSE [ok |-> FALSE, views |-> r.views]

\* ensure_views_from_files(): returns at once without the directory; else the
\* loop runs inside engine.begin().  When a statement raises, the statements
\* before it are rolled back or stay, as the driver opened a transaction for
\* the DDL or not.
ensure_views_from_files(d) ==
    /\ schemaPc \in {"idle", "views_returned"}
    /\ schemaPc = "views_returned" => d = viewDir
    /\ pc[MainWriter] = "idle"
    /\ viewDir' = d
    /\ viewsAtCall' = views
    /\ storeAtBoot' = store
    /\ tableAtBoot' = tableExists
    /\ repeated' = (schemaPc = "views_returned")
    /\ IF ~d.dir
       THEN /\ schemaPc' = "views_returned"
            /\ UNCHANGED views
       ELSE LET r == ViewLoop(views, d, 1)
            IN  IF r.ok
                THEN /\ schemaPc' = "views_returned"
                     /\ views' = r.views
                ELSE /\ schemaPc' = "views_raised"
                     /\ views' \in {views, r.views}
    /\ UNCHANGED <<tableExists, mergedIds>>
    /\ UNCHANGED mergeVars

\* The bootstrap call is over.
BootDone ==
    /\ schemaPc # "idle"
    /\ schemaPc' = "idle"
    /\ viewDir' = NoDir
    /\ viewsAtCall' = <<>>
    /\ storeAtBoot' = <<>>
    /\ tableAtBoot' = FALSE
    /\ repeated' = FALSE
    /\ UNCHANGED <<tableExists, views, mergedIds>>
    /\ UNCHANGED mergeVars

\* The batches merged between bootstrap calls: one row each.
BootBatches == {<<r>> : r \in AllSpending}

\* The database after the bootstrap has run, as the merge engine assumes.
SchemaInit ==
    /\ tableExists = TRUE
    /\ views = <<>>
    /\ schemaPc = "idle"
    /\ viewDir = NoDir
    /\ viewsAtCall = <<>>
    /\ storeAtBoot = <<>>
    /\ tableAtBoot = FALSE
    /\ repeated = FALSE
    /\ mergedIds = {}

\* The database file as create_engine leaves it: no table, no view.
SchemaFreshInit ==
    /\ tableExists = FALSE
    /\ views = <<>>
    /\ schemaPc = "idle"
    /\ viewDir = NoDir
    /\ viewsAtCall = <<>>
    /\ storeAtBoot = <<>>
    /\ tableAtBoot = FALSE
    /\ repeated = FALSE
    /\ mergedIds = {}

\* pd.read_sql finds the table: without it the SELECT raises (ReadFails).
ReadExistingTable(w) ==
    /\ tableExists
    /\ ReadExisting(w)

\* A batch is handed to insert_new_records between bootstrap calls.
CallBetweenBoots(w, df) ==
    /\ schemaPc = "idle"
    /\ Call(w, df)

\* The identifiers of the batch join mergedIds when the step ends the call
\* with a return.
LogMerged(w) ==
    /\ mergedIds' = IF pc'[w] = "returned" THEN mergedIds \cup IdsOf(batch[w]) ELSE mergedIds
    /\ UNCHANGED <<tableExists, views, schemaPc, viewDir, viewsAtCall, storeAtBoot,
                   tableAtBoot, repeated>>

vars == <<mergeVars, genVars, schemaVars>>

Init == MergeInit /\ GenInit /\ SchemaInit

\* Single-writer model: one ingestion process calls insert_new_records.
Next ==
    \/ \E df \in Batches : Call(MainWriter, df) /\ UNCHANGED <<genVars, schemaVars>>
    \/ CallAgain(MainWriter) /\ UNCHANGED <<genVars, schemaVars>>
    \/ Finish(MainWriter) /\ UNCHANGED <<genVars, schemaVars>>
    \/ ReadExisting(MainWriter) /\ UNCHANGED <<genVars, schemaVars>>
    \/ ReadFails(MainWriter) /\ UNCHANGED <<genVars, schemaVars>>
    \/ ToSql(MainWriter) /\ UNCHANGED <<genVars, schemaVars>>
    \/ WriteFails(MainWriter) /\ UNCHANGED <<genVars, schemaVars>>

Spec == Init /\ [][Next]_vars

\* Two ingestion processes, one call each, interleaved at the store accesses.
NextConcurrent ==
    \/ \E w \in Writers, df \in Batches : Call(w, df) /\ UNCHANGED <<genVars, schemaVars>>
    \/ \E w \in Writers : ReadExisting(w) /\ UNCHANGED <<genVars, schemaVars>>
    \/ \E w \in Writers : ReadFails(w) /\ UNCHANGED <<genVars, schemaVars>>
    \/ \E w \in Writers : ToSql(w) /\ UNCHANGED <<genVars, schemaVars>>
    \/ \E w \in Writers : WriteFails(w) /\ UNCHANGED <<genVars, schemaVars>>

SpecConcurrent == Init /\ [][NextConcurrent]_vars

\* The identifier generator called again and again, on any batches.
NextGen == \E df \in GenBatches : Generate(df) /\ UNCHANGED <<mergeVars, schemaVars>>

SpecGen == Init /\ [][NextGen]_vars

\* The identifier generator called again and again, each call looked at alone.
InitGenWide == MergeInit /\ GenWideInit /\ SchemaInit

NextGenWide ==
    \/ \E df \in WideBatches : GenerateWide(df) /\ UNCHANGED <<mergeVars, schemaVars>>
    \/ DiscardWide /\ UNCHANGED <<mergeVars, schemaVars>>

SpecGenWide == InitGenWide /\ [][NextGenWide]_vars

\* The generator on a single row and on that row with one key field changed.
NextKey ==
    \/ \E row \in KeyRows : KeyFirst(row) /\ UNCHANGED <<mergeVars, schemaVars>>
    \/ \E f \in IdentityFields : \E v \in KeyFieldValues(f) :
          KeyVariant(f, v) /\ UNCHANGED <<mergeVars, schemaVars>>
    \/ KeyDone /\ UNCHANGED <<mergeVars, schemaVars>>

SpecKey == Init /\ [][NextKey]_vars

\* One ingestion process: generator, then merge, batch after batch, each batch
\* possibly followed by a reordering of itself.
NextIngest ==
    \/ \E df \in IngestBatches : IngestFirst(df) /\ UNCHANGED schemaVars
    \/ \E p \in Reorderings(refDf) : IngestReordered(p) /\ UNCHANGED schemaVars
    \/ ReadExisting(MainWriter) /\ UNCHANGED <<genVars, schemaVars>>
    \/ ReadFails(MainWriter) /\ UNCHANGED <<genVars, schemaVars>>
    \/ ToSql(MainWriter) /\ UNCHANGED <<genVars, schemaVars>>
    \/ WriteFails(MainWriter) /\ UNCHANGED <<genVars, schemaVars>>
    \/ FinishIngest /\ UNCHANGED schemaVars

SpecIngest == Init /\ [][NextIngest]_vars

\* The generator on a single row and then on any other single row.
NextPair ==
    \/ \E row \in PairRows : KeyFirst(row) /\ UNCHANGED <<mergeVars, schemaVars>>
    \/ \E row \in PairRows : KeyOther(row) /\ UNCHANGED <<mergeVars, schemaVars>>
    \/ KeyDone /\ UNCHANGED <<mergeVars, schemaVars>>

SpecPair == Init /\ [][NextPair]_vars

\* The single writer's merges, with the identifiers of the merged batches kept.
NextUnion ==
    \/ \E df \in Batches : Call(MainWriter, df) /\ UNCHANGED <<genVars, schemaVars>>
    \/ CallAgain(MainWriter) /\ UNCHANGED <<genVars, schemaVars>>
    \/ Finish(MainWriter) /\ UNCHANGED <<genVars, schemaVars>>
    \/ ReadExisting(MainWriter) /\ LogMerged(MainWriter) /\ UNCHANGED genVars
    \/ ReadFails(MainWriter) /\ UNCHANGED <<genVars, schemaVars>>
    \/ ToSql(MainWriter) /\ LogMerged(MainWriter) /\ UNCHANGED genVars
    \/ WriteFails(MainWriter) /\ UNCHANGED <<genVars, schemaVars>>

SpecUnion == Init /\ [][NextUnion]_vars

\* The process bootstraps the schema and the views, and merges one-row batches
\* in between; the database starts without table and views.
InitSchema == MergeInit /\ GenInit /\ SchemaFreshInit

NextSchema ==
    \/ init_db /\ UNCHANGED genVars
    \/ InitDbFails /\ UNCHANGED genVars
    \/ \E d \in ViewDirs : ensure_views_from_files(d) /\ UNCHANGED genVars
    \/ BootDone /\ UNCHANGED genVars
    \/ \E df \in BootBatches : CallBetweenBoots(MainWriter, df) /\ UNCHANGED <<genVars, schemaVars>>
    \/ ReadExistingTable(MainWriter) /\ UNCHANGED <<genVars, schemaVars>>
    \/ ReadFails(MainWriter) /\ UNCHANGED <<genVars, schemaVars>>
    \/ ToSql(MainWriter) /\ UNCHANGED <<genVars, schemaVars>>
    \/ WriteFails(MainWriter) /\ UNCHANGED <<genVars, schemaVars>>
    \/ Finish(MainWriter) /\ UNCHANGED <<genVars, schemaVars>>

SpecSchema == InitSchema /\ [][NextSchema]_vars

\* ------------------------------------------------------------------ claims
Has(log, op) == \E i \in DOMAIN log : log[i] = op

\* How many stored rows carry the identifier.
CountId(rows, id) == Cardinality({i \in DOMAIN rows : rows[i].RowID = id})

\* C1: when the read succeeds and every identifier of the batch is already in
\* the store, the call returns 0, its only store operation is the read, and the
\* store is exactly as it was.
C1_MergeIdempotent ==
    \A w \in Writers :
        (Has(ops[w], "read_ok") /\ IdsOf(batch[w]) \subseteq IdsOf(storeAtCall[w]))
            => /\ pc[w] = "returned"
               /\ result[w] = 0
               /\ ops[w] = <<"read_ok">>
               /\ store = storeAtCall[w]

\* The same non-empty batch was merged by the previous call, and this call
\* found all of it present.
C1_Witness ==
    /\ pc[MainWriter] = "returned"
    /\ batch[MainWriter] # <<>>
    /\ prev[MainWriter].same /\ prev[MainWriter].returned
    /\ IdsOf(batch[MainWriter]) \subseteq IdsOf(storeAtCall[MainWriter])
    /\ result[MainWriter] = 0

\* C2: under a single writer the store never holds two records with the same
\* identifier.
C2_NoDuplicateIds == DistinctIds(store)

\* A batch that repeats an identifier was offered to a store that already
\* holds records, and the store is full.
C2_Witness ==
    /\ pc[MainWriter] \in {"returned", "raised"}
    /\ ~DistinctIds(batch[MainWriter])
    /\ Len(store) = MaxId

\* C3: the returned number is the number of rows the call added to the store
\* and the number of batch rows whose identifier was absent when the call read
\* the store.
C3_ReturnIsExactCount ==
    \A w \in Writers :
        pc[w] = "returned"
            => /\ result[w] = Len(store) - Len(storeAtCall[w])
               /\ result[w] = Cardinality({i \in DOMAIN batch[w] :
                                  batch[w][i].RowID \notin IdsOf(storeAtCall[w])})

\* A call that wrote some of its batch and skipped the rest.
C3_Witness ==
    /\ pc[MainWriter] = "returned"
    /\ result[MainWriter] > 0
    /\ result[MainWriter] < Len(batch[MainWriter])

\* C4: a batch of M rows with distinct identifiers merged into an empty store
\* writes M rows and returns M; the same batch merged again right after returns
\* 0 without writing and the store still holds M rows.
C4_FreshThenRepeat ==
    \A w \in Writers :
        /\ (pc[w] = "returned" /\ storeAtCall[w] = <<>> /\ DistinctIds(batch[w]))
              => (result[w] = Len(batch[w]) /\ store = batch[w])
        /\ (Has(ops[w], "read_ok") /\ DistinctIds(batch[w])
              /\ prev[w].same /\ prev[w].returned /\ prev[w].fromEmpty)
              => /\ pc[w] = "returned"
                 /\ result[w] = 0
                 /\ Len(store) = Len(batch[w])

\* The second merge of a batch of MaxBatch distinct rows that first went into
\* an empty store.
C4_Witness ==
    /\ pc[MainWriter] = "returned"
    /\ Len(batch[MainWriter]) = MaxBatch
    /\ DistinctIds(batch[MainWriter])
    /\ prev[MainWriter].same /\ prev[MainWriter].returned /\ prev[MainWriter].fromEmpty
    /\ result[MainWriter] = 0

\* C5: no step changes or removes a stored record, and no step adds a record
\* whose identifier is already stored (such a batch row is discarded).
C5_PersistedImmutable ==
    [][/\ \A i \in DOMAIN store : i \in DOMAIN store' /\ store'[i] = store[i]
       /\ \A i \in DOMAIN store' \ DOMAIN store : store'[i].RowID \notin IdsOf(store)]_vars

\* A call that wrote a new row while its batch also carried a stored
\* identifier with another Balance: the stored record kept its Balance.
C5_Witness ==
    /\ pc[MainWriter] = "returned"
    /\ Len(store) > Len(storeAtCall[MainWriter])
    /\ \E i \in DOMAIN batch[MainWriter], j \in DOMAIN storeAtCall[MainWriter] :
          /\ batch[MainWriter][i].RowID = storeAtCall[MainWriter][j].RowID
          /\ batch[MainWriter][i].Balance # storeAtCall[MainWriter][j].Balance
          /\ store[j] = storeAtCall[MainWriter][j]

\* C6: when the read of the existing identifiers fails, the call raises that
\* failure, attempts no write, and the store is unchanged.
C6_ReadFailureAborts ==
    \A w \in Writers :
        Has(ops[w], "read_failed")
            => /\ pc[w] = "raised"
               /\ error[w] = "OperationalError"
               /\ ops[w] = <<"read_failed">>
               /\ store = storeAtCall[w]

\* The read failed for a batch that had a row the store lacks.
C6_Witness ==
    /\ pc[MainWriter] = "raised"
    /\ Has(ops[MainWriter], "read_failed")
    /\ ~(IdsOf(batch[MainWriter]) \subseteq IdsOf(store))

\* C7: a call that returned reports the exact count and all its to-be-written
\* rows are stored; a call that raised names its failure and left the store as
\* it was at the call; no other ending exists and nothing is written in between.
C7_AllOrNothing ==
    \A w \in {MainWriter} :
        /\ pc[w] = "returned"
              => /\ result[w] = Len(new_records[w])
                 /\ store = storeAtCall[w] \o new_records[w]
                 /\ error[w] = ""
        /\ pc[w] = "raised"
              => /\ store = storeAtCall[w]
                 /\ error[w] \in {"OperationalError", "IntegrityError"}
        /\ pc[w] \in {"read", "write"} => store = storeAtCall[w]

\* The write was rejected although its first row was new to the store: a
\* row-by-row write would have left that row behind.
C7_Witness ==
    /\ pc[MainWriter] = "raised"
    /\ error[MainWriter] = "IntegrityError"
    /\ new_records[MainWriter] # <<>>
    /\ new_records[MainWriter][1].RowID \notin IdsOf(store)

\* C8: when the uniqueness constraint rejects a row of the write, the call
\* still returns (the row counted as a duplicate) and raises nothing.
C8_RejectionIsBenign ==
    \A w \in Writers :
        Has(ops[w], "write_rejected") => (pc[w] = "returned" /\ error[w] = "")

\* C9: two calls whose read-then-write steps interleave on an identifier that
\* was absent at both reads: the identifier is stored once, neither call raises,
\* and the two reported counts add up to the rows the two calls wrote (all the
\* rows of the store, which was empty before them).
C9_InterleavedMergeBenign ==
    \A w \in Writers : \A v \in inFlightAtRead[w] : \A id \in RowIds :
        (/\ id \in IdsOf(new_records[w]) \cap IdsOf(new_records[v])
         /\ pc[w] \in {"returned", "raised"} /\ pc[v] \in {"returned", "raised"}
         /\ DistinctIds(batch[w]) /\ DistinctIds(batch[v])
         /\ ~Has(ops[w], "write_failed") /\ ~Has(ops[v], "write_failed"))
            => /\ CountId(store, id) = 1
               /\ pc[w] = "returned" /\ pc[v] = "returned"
               /\ result[w] + result[v] = Len(store)

\* C10: a call of the generator that returns gives, position by position, the
\* identifiers an earlier call gave for the same batch, whatever calls were
\* made in between.
C10_GeneratorDeterministic ==
    (genPc = "returned" /\ genDf = refDf) => row_ids = refIds

\* A batch with a repeated row is identified again after the call kept for
\* comparison and at least one other call.
C10_Witness ==
    /\ genPc = "returned"
    /\ sinceRef = 2
    /\ genDf = refDf
    /\ Len(genDf) >= 2
    /\ create_hash_key(genDf[1]) = create_hash_key(genDf[2])

\* The five fields the identifier is made of agree.
SameIdentity(r1, r2) ==
    /\ r1.Date = r2.Date /\ r1.Description = r2.Description /\ r1.Amount = r2.Amount
    /\ r1.Source = r2.Source /\ r1.File = r2.File

\* C11: the rows of a batch that all have the same date, description, amount,
\* source and file get pairwise distinct identifiers, one each.
C11_IdenticalRowsDistinctIds ==
    (genPc = "returned" /\ \A i, j \in DOMAIN genDf : SameIdentity(genDf[i], genDf[j]))
        => /\ Len(row_ids) = Len(genDf)
           /\ \A i, j \in DOMAIN row_ids : i # j => row_ids[i] # row_ids[j]

\* A batch of MaxGenBatch such rows, not all with the same enrichment fields.
C11_Witness ==
    /\ genPc = "returned"
    /\ Len(genDf) = MaxGenBatch
    /\ \A i, j \in DOMAIN genDf : SameIdentity(genDf[i], genDf[j])
    /\ \E i, j \in DOMAIN genDf : genDf[i] # genDf[j]

\* What the key keeps of a field: the calendar day, the trimmed lower-case
\* description, the amount in two decimals, the trimmed source or file.
NormalForm(f, cell) ==
    CASE f = "Date" -> <<cell.y, cell.m, cell.d>>
      [] f = "Description" -> Lower(Strip(PyStr(cell)))
      [] f = "Amount" -> FormatAmount(cell)
      [] f = "Source" -> Strip(PyStr(cell))
      [] f = "File" -> Strip(PyStr(cell))

\* The last call identified one row that is the kept call's row but for field f.
OneFieldChanged(f) ==
    /\ genPc = "returned"
    /\ sinceRef = 2
    /\ Len(genDf) = 1 /\ Len(refDf) = 1
    /\ genDf[1][f] # refDf[1][f]
    /\ genDf[1] = [refDf[1] EXCEPT ![f] = genDf[1][f]]

\* C12 as stated: a row with the value of exactly one of date, description,
\* amount, source, file changed gets another identifier in a single-row batch.
C12_AnyChangeChangesId ==
    \A f \in IdentityFields : OneFieldChanged(f) => row_ids[1] # refIds[1]

\* C12 amended: the identifier changes when the changed field differs in what
\* the key keeps of it (day, trimmed lower-case description, two-decimal
\* amount, trimmed source, trimmed file).
C12_NormalizedChangeChangesId ==
    \A f \in IdentityFields :
        (OneFieldChanged(f) /\ NormalForm(f, genDf[1][f]) # NormalForm(f, refDf[1][f]))
            => row_ids[1] # refIds[1]

\* Two rows that differ only in the file, "j" and "jc", were identified.
C12_Witness ==
    /\ OneFieldChanged("File")
    /\ NormalForm("File", genDf[1].File) # NormalForm("File", refDf[1].File)
    /\ row_ids[1] # refIds[1]

\* The two batches agree, position by position, on the five key fields.
SameIdentityBatches(df1, df2) ==
    /\ Len(df1) = Len(df2)
    /\ \A i \in DOMAIN df1 : SameIdentity(df1[i], df2[i])

\* C13: a batch gets the identifiers an earlier call gave to a batch that
\* agrees with it on date, description, amount, source and file at every
\* position, whatever the balance, category and subdescription of either.
C13_EnrichmentIgnored ==
    (genPc = "returned" /\ SameIdentityBatches(genDf, refDf)) => row_ids = refIds

\* The two batches differ, in enrichment fields only.
C13_Witness ==
    /\ genPc = "returned"
    /\ sinceRef = 2
    /\ genDf # refDf
    /\ SameIdentityBatches(genDf, refDf)
    /\ Len(genDf) = MaxBatch

\* C14: the identifiers a call returns are pairwise distinct, whatever rows
\* the batch holds and whatever characters their strings contain.
C14_IdsUniqueInBatch ==
    genPc = "returned" => \A i, j \in DOMAIN row_ids : i # j => row_ids[i] # row_ids[j]

\* The occurrence rank of row i: the rows up to i that have its key.
Rank(df, i) ==
    Cardinality({j \in 1..i : create_hash_key(df[j]) = create_hash_key(df[i])})

\* The identifier a row gets when it is alone in a batch.
AloneId(row) == IterRows(<<row>>, 1, EmptyCounter, <<>>).row_ids[1]

\* The identifier made of a key and an occurrence rank n >= 2 only.
NthId(key, n) == Md5Prefix(key \o <<"|", "d", "u", "p", "_">> \o Digits(n - 1))

\* C15: the first row with a key gets the identifier it gets alone in a batch,
\* the N-th row with that key the identifier made of the key and N, whatever
\* other rows the batch holds and wherever they stand.
C15_RankDecidesId ==
    genPc = "returned" =>
        \A i \in DOMAIN genDf :
            row_ids[i] = IF Rank(genDf, i) = 1 THEN AloneId(genDf[i])
                         ELSE NthId(create_hash_key(genDf[i]), Rank(genDf, i))

\* A row with another key stands between the two occurrences of a key.
C15_Witness ==
    /\ genPc = "returned"
    /\ Len(genDf) = 3
    /\ create_hash_key(genDf[1]) = create_hash_key(genDf[3])
    /\ create_hash_key(genDf[1]) # create_hash_key(genDf[2])
    /\ row_ids[3] = NthId(create_hash_key(genDf[1]), 2)

\* The keys of a batch.
KeysOf(df) == {create_hash_key(df[i]) : i \in DOMAIN df}

\* C16: after any earlier calls, a call that returns gives the identifiers a
\* call on the same batch gives in a fresh process, and its counter holds the
\* keys of its own batch only.
C16_CounterBatchLocal ==
    genPc = "returned" =>
        /\ row_ids = IterRows(genDf, 1, EmptyCounter, <<>>).row_ids
        /\ DOMAIN hash_counter = KeysOf(genDf)
        /\ \A k \in KeysOf(genDf) :
              hash_counter[k] = Cardinality({i \in DOMAIN genDf : create_hash_key(genDf[i]) = k})

\* Earlier calls, the kept one among them, identified rows with a key of the
\* batch of the last call.
C16_Witness ==
    /\ genPc = "returned"
    /\ sinceRef = 2
    /\ genDf # refDf
    /\ Len(genDf) = MaxBatch
    /\ KeysOf(genDf) \cap KeysOf(refDf) # {}
    /\ Len(refDf) = MaxBatch

\* The cell holds no value or one that cannot be read.
Missing(cell) == cell.kind \in {"None", "nan", "NaT", "bad"}

\* C17: a call on a batch with a row whose date, description, amount, source
\* or file is missing or unparseable fails.
C17_MissingFieldFails ==
    (genPc # "idle" /\ \E i \in DOMAIN genDf : \E f \in IdentityFields : Missing(genDf[i][f]))
        => genPc = "raised"

\* The identifiers that can belong to a row in a batch of n rows.
IdsOfRow(row, n) ==
    {AloneId(row)} \cup {NthId(create_hash_key(row), k) : k \in 2..n}

\* C18: a call that returns gives one identifier per row, the i-th made of the
\* i-th row's key, and none for the empty batch.
C18_OnePerRowAligned ==
    /\ genPc = "returned" =>
          /\ Len(row_ids) = Len(genDf)
          /\ \A i \in DOMAIN genDf : row_ids[i] \in IdsOfRow(genDf[i], Len(genDf))
    /\ (genPc # "idle" /\ genDf = <<>>) => (genPc = "returned" /\ row_ids = <<>>)

\* A batch of MaxGenBatch rows, not all with the same key, was identified.
C18_Witness ==
    /\ genPc = "returned"
    /\ Len(genDf) = MaxGenBatch
    /\ Len(row_ids) = MaxGenBatch
    /\ create_hash_key(genDf[1]) # create_hash_key(genDf[MaxGenBatch])

\* The values of a list, as a set.
SetOf(seq) == {seq[i] : i \in DOMAIN seq}

\* The merge of a reordering of the batch merged before is under way or over.
ReorderedMerge == sinceRef = 2 /\ pc[MainWriter] # "idle"

\* C19: a reordering of a batch gets the same set of identifiers; merged after
\* the batch, it writes no row; the identifiers a merge leaves in the store
\* are those it found there and those of its batch, in whatever order.
C19_OrderIrrelevant ==
    /\ ReorderedMerge => SetOf(row_ids) = SetOf(refIds)
    /\ (ReorderedMerge /\ prev[MainWriter].returned)
          => /\ store = storeAtCall[MainWriter]
             /\ pc[MainWriter] # "write"
             /\ pc[MainWriter] = "returned" => result[MainWriter] = 0
    /\ (sinceRef > 0 /\ pc[MainWriter] = "returned")
          => IdsOf(store) = IdsOf(storeAtCall[MainWriter]) \cup SetOf(row_ids)

\* A batch of two rows with different keys was merged, then its reordering.
C19_Witness ==
    /\ ReorderedMerge
    /\ prev[MainWriter].returned
    /\ pc[MainWriter] = "returned"
    /\ genDf # refDf
    /\ Len(genDf) >= 2
    /\ create_hash_key(genDf[1]) # create_hash_key(genDf[2])
    /\ row_ids # refIds

\* The batch kept for comparison has K >= 1 rows, all with the same date,
\* description, amount, source and file.
IdenticalRows(df) ==
    /\ Len(df) >= 1
    /\ \A i, j \in DOMAIN df : SameIdentity(df[i], df[j])

\* The call of insert_new_records is over and no store access failed.
MergeOver ==
    /\ pc[MainWriter] \in {"returned", "raised"}
    /\ error[MainWriter] # "OperationalError"

\* C20: K rows with identical identity fields, given identifiers and merged
\* into the empty store, leave K rows there and K is returned; given
\* identifiers and merged again, 0 is returned and the store holds K rows.
C20_IdenticalRowsEndToEnd ==
    /\ (sinceRef = 1 /\ IdenticalRows(refDf) /\ MergeOver /\ storeAtCall[MainWriter] = <<>>)
          => /\ pc[MainWriter] = "returned"
             /\ result[MainWriter] = Len(refDf)
             /\ Len(store) = Len(refDf)
    /\ (sinceRef = 2 /\ IdenticalRows(refDf) /\ genDf = refDf /\ MergeOver
            /\ prev[MainWriter].returned /\ prev[MainWriter].fromEmpty)
          => /\ pc[MainWriter] = "returned"
             /\ result[MainWriter] = 0
             /\ Len(store) = Len(refDf)

\* MaxBatch identical purchases were merged into the empty store and again.
C20_Witness ==
    /\ sinceRef = 2
    /\ IdenticalRows(refDf)
    /\ Len(refDf) = MaxBatch
    /\ genDf = refDf
    /\ pc[MainWriter] = "returned"
    /\ prev[MainWriter].returned
    /\ prev[MainWriter].fromEmpty
    /\ Len(store) = MaxBatch

\* C21: after init_db returns the table exists, and the rows of the table
\* and the views are what they were before the call, wherever in the run the
\* call is made.
C21_InitDbKeepsData ==
    schemaPc = "init_returned" =>
        /\ tableExists
        /\ store = storeAtBoot
        /\ views = viewsAtCall

\* init_db was called on a database that had the table, with rows in it.
C21_Witness ==
    /\ schemaPc = "init_returned"
    /\ tableAtBoot
    /\ Len(store) >= 2
    /\ store = storeAtBoot

\* The views named name.
ViewsNamed(vs, name) == {i \in DOMAIN vs : vs[i].name = name}

\* C22: after ensure_views_from_files returns, every definition of the
\* directory has exactly one view of its name, with the definition's body; a
\* call that repeats the call before with the same definitions leaves the set
\* of views as it was; a call whose definitions all parse returns; no call
\* changes the table.
C22_ViewsReplacedNotAdded ==
    /\ (schemaPc = "views_returned" /\ viewDir.dir)
          => \A n \in DOMAIN viewDir.files :
                /\ Cardinality(ViewsNamed(views, n)) = 1
                /\ \A i \in ViewsNamed(views, n) : views[i].body = SqlBody(viewDir.files[n])
    /\ (schemaPc = "views_returned" /\ repeated)
          => {views[i] : i \in DOMAIN views} = {viewsAtCall[i] : i \in DOMAIN viewsAtCall}
    /\ schemaPc = "views_raised"
          => \E n \in DOMAIN viewDir.files : SyntaxError(SqlBody(viewDir.files[n]))
    /\ schemaPc \in {"views_returned", "views_raised"}
          => (store = storeAtBoot /\ tableExists = tableAtBoot)

\* The call was repeated with two definitions, one of them written with a
\* closing semicolon, on a database with rows in its table.
C22_Witness ==
    /\ schemaPc = "views_returned"
    /\ repeated
    /\ DOMAIN viewDir.files = ViewNames
    /\ \E n \in ViewNames : SqlBody(viewDir.files[n]) # viewDir.files[n]
    /\ Len(views) = 2
    /\ store # <<>>

\* Two single-row batches were identified, one after the other.
PairIdentified ==
    /\ genPc = "returned"
    /\ sinceRef = 2
    /\ Len(genDf) = 1 /\ Len(refDf) = 1

\* The rows differ at most in the time of day, in case and padding of the
\* description and in padding of source and file.
InsignificantDifference(a, b) ==
    /\ <<a.Date.y, a.Date.m, a.Date.d>> = <<b.Date.y, b.Date.m, b.Date.d>>
    /\ Lower(Strip(a.Description.s)) = Lower(Strip(b.Description.s))
    /\ a.Amount = b.Amount
    /\ Strip(a.Source.s) = Strip(b.Source.s)
    /\ Strip(a.File.s) = Strip(b.File.s)

\* The rows differ in the letter case of field f (source or file) only.
CaseDifference(a, b, f) ==
    /\ b = [a EXCEPT ![f] = b[f]]
    /\ a[f].s # b[f].s
    /\ Lower(a[f].s) = Lower(b[f].s)

\* C23: two rows that differ only in the time of day, in letter case or outer
\* whitespace of the description, or in outer whitespace of source or file get
\* the same key and, alone in a batch, the same identifier; rows that differ
\* in the letter case of source or of file get different ones.
C23_KeyNormalizes ==
    PairIdentified =>
        /\ InsignificantDifference(refDf[1], genDf[1])
              => /\ create_hash_key(genDf[1]) = create_hash_key(refDf[1])
                 /\ row_ids = refIds
        /\ \A f \in {"Source", "File"} :
              CaseDifference(refDf[1], genDf[1], f)
                  => /\ create_hash_key(genDf[1]) # create_hash_key(refDf[1])
                     /\ row_ids # refIds

\* The two rows differ in time of day, description, source and file at once.
C23_Witness ==
    /\ PairIdentified
    /\ InsignificantDifference(refDf[1], genDf[1])
    /\ \A f \in {"Date", "Description", "Source", "File"} : genDf[1][f] # refDf[1][f]
    /\ row_ids = refIds

\* What the key keeps of the five fields of a row.
NormalTuple(row) == [f \in IdentityFields |-> NormalForm(f, row[f])]

\* C24: two rows whose normalized identity tuples differ, in one field or in
\* several, get different keys and, alone in a batch, different identifiers.
C24_DistinctTuplesDistinctKeys ==
    (PairIdentified /\ NormalTuple(genDf[1]) # NormalTuple(refDf[1]))
        => /\ create_hash_key(genDf[1]) # create_hash_key(refDf[1])
           /\ row_ids # refIds

\* The identifiers the occurrences of a key can get.
IdsOfKey(key) == {Md5Prefix(key)} \cup {NthId(key, n) : n \in 2..MaxBatch}

\* How many records of the table belong to the key.
RecordsOfKey(table, key) ==
    Cardinality({i \in DOMAIN table : table[i].RowID \in IdsOfKey(key)})

\* How many rows of the batch have the key.
RowsOfKey(df, key) == Cardinality({i \in DOMAIN df : create_hash_key(df[i]) = key})

Max(a, b) == IF a >= b THEN a ELSE b

\* C25: when a batch with J rows of a key is identified and merged into a
\* store that holds K records of that key from earlier batches, the store
\* ends with max(K, J) records of the key; a batch of that key alone writes
\* max(J - K, 0) rows.
C25_CounterComposesAsMax ==
    (sinceRef > 0 /\ genPc = "returned" /\ MergeOver)
        => /\ pc[MainWriter] = "returned"
           /\ \A key \in KeysOf(genDf) :
                 LET K == RecordsOfKey(storeAtCall[MainWriter], key)
                     J == RowsOfKey(genDf, key)
                 IN  /\ RecordsOfKey(store, key) = Max(K, J)
                     /\ KeysOf(genDf) = {key} => result[MainWriter] = Max(J - K, 0)

\* One purchase was merged in an earlier run; a batch with that purchase
\* MaxBatch times is merged.
C25_Witness ==
    /\ sinceRef = 1
    /\ genPc = "returned"
    /\ pc[MainWriter] = "returned"
    /\ Len(genDf) = MaxBatch
    /\ Cardinality(KeysOf(genDf)) = 1
    /\ RecordsOfKey(storeAtCall[MainWriter], create_hash_key(genDf[1])) = 1
    /\ result[MainWriter] = MaxBatch - 1
    /\ RecordsOfKey(store, create_hash_key(genDf[1])) = MaxBatch

\* C26: the stored identifiers are those of all the batches whose merge
\* returned (the store began empty), whatever the order of the merges; a merge
\* that returns leaves the identifiers it found united with those of its
\* batch, so every identifier of the batch is stored.
C26_StoreIsUnionOfBatches ==
    /\ IdsOf(store) = mergedIds
    /\ pc[MainWriter] = "returned"
          => /\ IdsOf(store) = IdsOf(storeAtCall[MainWriter]) \cup IdsOf(batch[MainWriter])
             /\ IdsOf(batch[MainWriter]) \subseteq IdsOf(store)

\* A batch of distinct identifiers that overlaps the store was merged.
C26_Witness ==
    /\ pc[MainWriter] = "returned"
    /\ DistinctIds(batch[MainWriter])
    /\ IdsOf(batch[MainWriter]) \cap IdsOf(storeAtCall[MainWriter]) # {}
    /\ IdsOf(batch[MainWriter]) \ IdsOf(storeAtCall[MainWriter]) # {}
    /\ mergedIds = RowIds

\* The batch holds an identifier twice that the store lacked at the call.
RepeatedAbsentIds(w) ==
    {id \in IdsOf(batch[w]) : CountId(batch[w], id) >= 2 /\ id \notin IdsOf(storeAtCall[w])}

\* C27: a merge of a batch that holds an identifier twice or more, absent from
\* the store, returns (when no store access fails), stores that identifier
\* once and returns the number of records it added.
C27_RepeatedIdMergedOnce ==
    (RepeatedAbsentIds(MainWriter) # {}
        /\ pc[MainWriter] \in {"returned", "raised"}
        /\ error[MainWriter] # "OperationalError")
        => /\ pc[MainWriter] = "returned"
           /\ \A id \in RepeatedAbsentIds(MainWriter) : CountId(store, id) = 1
           /\ result[MainWriter] = Len(store) - Len(storeAtCall[MainWriter])

====
